---- MODULE Spec2Model ----
(***************************************************************************)
(* bavcityGPT: the GPT model of src/model.py (construction, weight tying,  *)
(* weight initialisation, forward pass, parameter count) and the           *)
(* train/dev/test split of src/prepare_data.py.                            *)
(*                                                                         *)
(* Tensors are abstracted to what the properties need: a parameter tensor  *)
(* is a heap cell [numel, init, val] reached through the names that refer  *)
(* to it; an activation is, per position, the set of input positions its   *)
(* value is computed from.                                                 *)
(***************************************************************************)
EXTENDS Integers, Sequences, FiniteSets

VARIABLES
    phase,       \* "new" | "applying" | "ready" | "failed" | "data"
    config,      \* the GPTconfig handed to GPT.__init__ (with init_weights)
    ref,         \* parameter name -> tensor id (two names may share an id)
    heap,        \* tensor id -> [numel, init, val]
    tril,        \* per attention layer: the registered buffer "tril"
    head_size,   \* per attention layer: MultiHeadAttention.head_size
    pending,     \* modules self.apply has not visited yet
    out,         \* result of the last forward / get_num_params call
    data,        \* DataConfig sizes and the encoded token list
    splits       \* result of NameProcessor._create_splits

vars == <<phase, config, ref, heap, tril, head_size, pending, out, data, splits>>

----------------------------------------------------------------------------
(* Bounds of the model *)

MaxCtx == 2
MaxVocab == 2
MaxEmbd == 1
MaxHead == 2
MaxLayer == 2
MaxInitLayer == 1
MaxB == 1
MaxVal == 1
MaxTokens == 5

WidenChoices == {1, 2}

----------------------------------------------------------------------------
(* Helpers *)

Range(s) == {s[i] : i \in DOMAIN s}

Min(a, b) == IF a <= b THEN a ELSE b

\* s[lo] + ... + s[hi]
RECURSIVE SumSeq(_, _, _)
SumSeq(s, lo, hi) ==
    IF lo > hi THEN 0
    ELSE IF lo = hi THEN s[lo]
    ELSE SumSeq(s, lo, (lo + hi) \div 2) + SumSeq(s, ((lo + hi) \div 2) + 1, hi)

RECURSIVE Concat(_)
Concat(ss) == IF ss = <<>> THEN <<>> ELSE Head(ss) \o Concat(Tail(ss))

Idx == <<"0", "1", "2", "3", "4", "5", "6", "7">>

----------------------------------------------------------------------------
(* GPTconfig and the module tree built by GPT.__init__ *)

GPTconfigs ==
    [is_GPTconfig : BOOLEAN,
     context_len  : 1..MaxCtx,
     vocab_size   : 0..MaxVocab,
     n_embd       : 1..MaxEmbd,
     n_head       : 0..MaxHead,
     n_layer      : 0..MaxLayer,
     ffw_widen    : WidenChoices,
     a_bias       : BOOLEAN,
     ffw_bias     : BOOLEAN,
     lm_head_bias : BOOLEAN,
     init_weights : BOOLEAN]

BlockPath(l) == <<"transformer", "h", Idx[l + 1]>>

Mod(path, cls) == [path |-> path, cls |-> cls]

\* children-first order of nn.Module.apply over one TransformerBlock
BlockModules(l) ==
    LET p == BlockPath(l) IN
    << Mod(p \o <<"multi_head_sa", "qkv">>, "Linear"),
       Mod(p \o <<"multi_head_sa", "proj">>, "Linear"),
       Mod(p \o <<"multi_head_sa", "dropout">>, "Dropout"),
       Mod(p \o <<"multi_head_sa">>, "MultiHeadAttention"),
       Mod(p \o <<"ffw", "c_fc">>, "Linear"),
       Mod(p \o <<"ffw", "relu">>, "ReLU"),
       Mod(p \o <<"ffw", "proj">>, "Linear"),
       Mod(p \o <<"ffw", "dropout">>, "Dropout"),
       Mod(p \o <<"ffw">>, "Ffw"),
       Mod(p \o <<"ln1">>, "LayerNorm"),
       Mod(p \o <<"ln2">>, "LayerNorm"),
       Mod(p, "TransformerBlock") >>

\* every module of the GPT, in the order self.apply visits them
ApplyOrder(cfg) ==
    << Mod(<<"transformer", "wte">>, "Embedding"),
       Mod(<<"transformer", "wpe">>, "Embedding"),
       Mod(<<"transformer", "drop">>, "Dropout") >>
    \o Concat([l \in 1..cfg.n_layer |-> BlockModules(l - 1)])
    \o << Mod(<<"transformer", "h">>, "ModuleList"),
          Mod(<<"transformer", "ln_f">>, "LayerNorm"),
          Mod(<<"transformer">>, "ModuleDict"),
          Mod(<<"lm_head">>, "Linear"),
          Mod(<<"GPT">>, "GPT") >>

Par(name, numel) == [name |-> name, numel |-> numel]

\* parameters registered by one TransformerBlock, in registration order
BlockParams(cfg, l) ==
    LET p == BlockPath(l)
        C == cfg.n_embd
        W == cfg.n_embd * cfg.ffw_widen
    IN  << Par(p \o <<"multi_head_sa", "qkv", "weight">>, 3 * C * C) >>
        \o (IF cfg.a_bias
            THEN << Par(p \o <<"multi_head_sa", "qkv", "bias">>, 3 * C) >> ELSE <<>>)
        \o << Par(p \o <<"multi_head_sa", "proj", "weight">>, C * C) >>
        \o (IF cfg.a_bias
            THEN << Par(p \o <<"multi_head_sa", "proj", "bias">>, C) >> ELSE <<>>)
        \o << Par(p \o <<"ffw", "c_fc", "weight">>, W * C) >>
        \o (IF cfg.ffw_bias
            THEN << Par(p \o <<"ffw", "c_fc", "bias">>, W) >> ELSE <<>>)
        \o << Par(p \o <<"ffw", "proj", "weight">>, C * W) >>
        \o (IF cfg.ffw_bias
            THEN << Par(p \o <<"ffw", "proj", "bias">>, C) >> ELSE <<>>)
        \o << Par(p \o <<"ln1", "weight">>, C), Par(p \o <<"ln1", "bias">>, C),
              Par(p \o <<"ln2", "weight">>, C), Par(p \o <<"ln2", "bias">>, C) >>

WteWeight == <<"transformer", "wte", "weight">>
WpeWeight == <<"transformer", "wpe", "weight">>
LmHeadWeight == <<"lm_head", "weight">>

\* every parameter the constructors register, in registration order
ParamOrder(cfg) ==
    << Par(WteWeight, cfg.vocab_size * cfg.n_embd),
       Par(WpeWeight, cfg.context_len * cfg.n_embd) >>
    \o Concat([l \in 1..cfg.n_layer |-> BlockParams(cfg, l - 1)])
    \o << Par(<<"transformer", "ln_f", "weight">>, cfg.n_embd),
          Par(<<"transformer", "ln_f", "bias">>, cfg.n_embd),
          Par(LmHeadWeight, cfg.vocab_size * cfg.n_embd) >>
    \o (IF cfg.lm_head_bias
        THEN << Par(<<"lm_head", "bias">>, cfg.vocab_size) >> ELSE <<>>)

----------------------------------------------------------------------------
(* Parameter tensors: names, identity, initialisers *)

\* the initialiser last applied to a tensor; Normal(d) is N(0, (0.02)^2 / d)
Default == [dist |-> "default", div |-> 0]
Zeros == [dist |-> "zeros", div |-> 0]
Normal(d) == [dist |-> "normal", div |-> d]

Tensor(numel) == [numel |-> numel, init |-> Default, val |-> 0]

\* after the constructors of the sub-modules: every name has a tensor of its own
FreshRef(cfg) ==
    LET ps == ParamOrder(cfg) IN
    [n \in {ps[i].name : i \in DOMAIN ps} |-> n]

FreshHeap(cfg) ==
    LET ps == ParamOrder(cfg) IN
    [id \in {ps[i].name : i \in DOMAIN ps} |->
        Tensor(ps[CHOOSE i \in DOMAIN ps : ps[i].name = id].numel)]

TieWeightsCopy(r) == r

\* self.transformer.wte.weight = self.lm_head.weight
TieWeights(r) == [r EXCEPT ![WteWeight] = r[LmHeadWeight]]

\* tensors no name refers to any more are gone
Live(r, h) == [id \in Range(r) |-> h[id]]

ParamNames(ps) == [i \in DOMAIN ps |-> ps[i].name]

\* the tensor behind each registered name, in registration order
TensorIds(names, r) == [i \in DOMAIN names |-> r[names[i]]]

\* named_parameters yields the i-th registered name when no earlier name has
\* its tensor (one name per distinct tensor)
Yields(ids, i) == \A j \in 1..(i - 1) : ids[j] # ids[i]

\* nn.Module.named_parameters: registration order, one name per distinct tensor
NamedParameters(cfg, r) ==
    LET names == ParamNames(ParamOrder(cfg))
        ids   == TensorIds(names, r)
        keep  == SelectSeq([i \in DOMAIN names |-> i], LAMBDA i : Yields(ids, i))
    IN  [k \in DOMAIN keep |-> names[keep[k]]]

\* name.endswith("proj.weight"), on the dotted path
EndsWithProjWeight(name) ==
    /\ Len(name) >= 2
    /\ name[Len(name) - 1] = "proj"
    /\ name[Len(name)] = "weight"

\* torch.nn.init.normal_ / zeros_ : in-place fill of the tensor behind a name
Fill(r, h, name, init) == [h EXCEPT ![r[name]] = [@ EXCEPT !.init = init, !.val = 0]]

FillIds(h, ids, init) ==
    [id \in DOMAIN h |->
        IF id \in ids THEN [h[id] EXCEPT !.init = init, !.val = 0] ELSE h[id]]

ScaledTargets(names, ids) ==
    {ids[i] : i \in {k \in DOMAIN names : EndsWithProjWeight(names[k]) /\ Yields(ids, k)}}

\* the scaled pass of _init_weights (model.py 161-166): every parameter that
\* named_parameters yields under a name ending in "proj.weight"
ScaledPass(cfg, r, h) ==
    LET names == ParamNames(ParamOrder(cfg)) IN
    FillIds(h, ScaledTargets(names, TensorIds(names, r)), Normal(2 * cfg.n_layer))

\* the isinstance branch of _init_weights (model.py 155-159)
GeneralPass(r, h, m) ==
    IF m.cls \in {"Linear", "Embedding"}
    THEN LET hw == Fill(r, h, m.path \o <<"weight">>, Normal(1))
         IN  IF (m.path \o <<"bias">>) \in DOMAIN r
             THEN Fill(r, hw, m.path \o <<"bias">>, Zeros)
             ELSE hw
    ELSE h

InitWeightsScaledFirst(cfg, r, h, m) == GeneralPass(r, ScaledPass(cfg, r, h), m)

\* GPT._init_weights(module)
InitWeights(cfg, r, h, m) == ScaledPass(cfg, r, GeneralPass(r, h, m))

\* self.apply(self._init_weights): the callback runs module by module, each
\* call on the tensors the previous one left (the test on h1 makes TLC
\* compute each heap before it goes on)
RECURSIVE Apply(_, _, _, _)
Apply(cfg, r, h, ms) ==
    IF ms = <<>> THEN h
    ELSE LET h1 == InitWeights(cfg, r, h, Head(ms))
         IN  IF h1 = h1 THEN Apply(cfg, r, h1, Tail(ms)) ELSE h1

----------------------------------------------------------------------------
(* GPT.__init__ *)

\* the assertions of GPT.__init__ (model.py 107-110), in order
ConfigAsserts(cfg) ==
    /\ cfg.is_GPTconfig
    /\ cfg.n_head > 0
    /\ cfg.n_layer > 0
    /\ cfg.vocab_size > 0

HeadsDivideUnchecked(cfg) == TRUE

\* the assertion of MultiHeadAttention.__init__ (model.py 36)
HeadsDivide(cfg) == cfg.n_embd % cfg.n_head = 0

TriuOnes(n) == [i \in 0..(n - 1) |-> [j \in 0..(n - 1) |-> IF j >= i THEN 1 ELSE 0]]

\* torch.tril(torch.ones(n, n))
TrilOnes(n) == [i \in 0..(n - 1) |-> [j \in 0..(n - 1) |-> IF j <= i THEN 1 ELSE 0]]

NoModel ==
    [ref |-> <<>>, heap |-> <<>>, tril |-> <<>>, head_size |-> <<>>]

\* the object GPT.__init__ leaves behind when no assertion fails
Built(cfg) ==
    LET r  == TieWeights(FreshRef(cfg))
        h0 == Live(r, FreshHeap(cfg))
        h  == IF cfg.init_weights THEN Apply(cfg, r, h0, ApplyOrder(cfg)) ELSE h0
    IN  [ref       |-> r,
         heap      |-> h,
         tril      |-> [l \in 0..(cfg.n_layer - 1) |-> TrilOnes(cfg.context_len)],
         head_size |-> [l \in 0..(cfg.n_layer - 1) |-> cfg.n_embd \div cfg.n_head]]

Constructs(cfg) == ConfigAsserts(cfg) /\ HeadsDivide(cfg)

NoOut ==
    [op |-> "none", status |-> "none", error |-> "", B |-> 0, T |-> 0,
     given |-> FALSE, targets |-> <<>>, shape |-> <<>>, loss |-> "absent",
     steps |-> <<>>, masks |-> <<>>, deps |-> <<>>, non_embedding |-> FALSE,
     value |-> 0]

NoData == [train |-> 0, dev |-> 0, test |-> 0, names |-> <<>>]
NoSplits == [done |-> FALSE, train |-> <<>>, dev |-> <<>>, test |-> <<>>,
             boundary_1 |-> 0, boundary_2 |-> 0, boundary_3 |-> 0]

\* model = GPT(config, init_weights)
Construct(cfg) ==
    /\ phase = "new"
    /\ config' = cfg
    /\ IF Constructs(cfg)
       THEN LET gpt == Built(cfg) IN
            /\ phase' = "ready"
            /\ ref' = gpt.ref
            /\ heap' = gpt.heap
            /\ tril' = gpt.tril
            /\ head_size' = gpt.head_size
       ELSE /\ phase' = "failed"
            /\ ref' = NoModel.ref
            /\ heap' = NoModel.heap
            /\ tril' = NoModel.tril
            /\ head_size' = NoModel.head_size
    /\ UNCHANGED <<pending, out, data, splits>>

----------------------------------------------------------------------------
(* The caller's in-place writes (optimizer steps) and get_num_params *)

\* names the modelled training loop writes through
WriteNames == {WteWeight, LmHeadWeight}

\* with torch.no_grad(): <name>.fill_(v)
ExternalWrite(name, v) ==
    /\ phase = "ready"
    /\ name \in DOMAIN ref
    /\ heap' = [heap EXCEPT ![ref[name]].val = v]
    /\ UNCHANGED <<phase, config, ref, tril, head_size, pending, out, data, splits>>

NumelSumPerName(cfg, r, h) ==
    LET ps == ParamNames(ParamOrder(cfg)) IN
    SumSeq([i \in DOMAIN ps |-> h[r[ps[i]]].numel], 1, Len(ps))

\* sum(p.numel() for p in self.parameters()): one term per distinct tensor
NumelSum(cfg, r, h) ==
    LET ps == NamedParameters(cfg, r) IN
    SumSeq([i \in DOMAIN ps |-> h[r[ps[i]]].numel], 1, Len(ps))

\* GPT.get_num_params(non_embedding)
NumParams(cfg, r, h, non_embedding) ==
    IF non_embedding THEN NumelSum(cfg, r, h) - h[r[WpeWeight]].numel
    ELSE NumelSum(cfg, r, h)

GetNumParams(non_embedding) ==
    /\ phase = "ready"
    /\ out' = [NoOut EXCEPT !.op = "get_num_params", !.status = "ok",
                            !.non_embedding = non_embedding,
                            !.value = NumParams(config, ref, heap, non_embedding)]
    /\ UNCHANGED <<phase, config, ref, heap, tril, head_size, pending, data, splits>>

----------------------------------------------------------------------------
(* GPT.forward.  An activation x maps batch row b and position i to the    *)
(* set of input cells <<b, j>> its value is computed from.                 *)

IgnoreIndex == -1

NotGiven == [given |-> FALSE, m |-> <<>>]

\* a (B, T) target batch whose first k entries (row-major) are the ignore-index
TargetBatch(B, T, k) ==
    [given |-> TRUE,
     m |-> [b \in 1..B |-> [t \in 1..T |->
              IF (b - 1) * T + t <= k THEN IgnoreIndex ELSE 0]]]

TargetChoices(B, T) == {NotGiven} \cup {TargetBatch(B, T, k) : k \in 0..(B * T)}

LengthOkStrict(T, context_len) == T < context_len

\* assert T <= self.config.context_len
LengthOk(T, context_len) == T <= context_len

Size(buf) == Cardinality(DOMAIN buf)

\* self.tril[:T, :T]
MaskSlice(buf, T) ==
    LET n == Min(T, Size(buf)) IN
    [i \in 0..(n - 1) |-> [j \in 0..(n - 1) |-> buf[i][j]]]

\* wte(idx) + wpe(arange(T)), then dropout: cell (b, i) reads token (b, i) only
Embed(B, T) == [b \in 1..B |-> [i \in 0..(T - 1) |-> {<<b, i>>}]]

\* LayerNorm over the last dimension, Linear, ReLU, Dropout: position by position
PerPosition(x) == x

\* x + f(x)
Residual(x, y) == [b \in DOMAIN x |-> [i \in DOMAIN x[b] |-> x[b][i] \cup y[b][i]]]

\* MultiHeadAttention.forward: row i of softmax(masked scores) @ v reads q at i
\* and k, v at every j whose score was not replaced by -inf
Attention(x, mask) ==
    [b \in DOMAIN x |-> [i \in DOMAIN x[b] |->
        x[b][i] \cup UNION {x[b][j] : j \in {k \in DOMAIN x[b] : mask[i][k] # 0}}]]

\* TransformerBlock.forward (the test on a makes TLC compute the activation
\* once, before the second half reads it)
Block(x, mask) ==
    LET a == Residual(x, PerPosition(Attention(PerPosition(x), mask)))
    IN  IF a = a THEN Residual(a, PerPosition(PerPosition(a))) ELSE a

\* for block in self.transformer.h: x = block(x)
RECURSIVE Blocks(_, _, _, _)
Blocks(x, bufs, l, T) ==
    IF l \notin DOMAIN bufs THEN x
    ELSE LET y == Block(x, MaskSlice(bufs[l], T))
         IN  IF y = y THEN Blocks(y, bufs, l + 1, T) ELSE y

\* F.cross_entropy(..., ignore_index=-1), reduction "mean": the sum over the
\* targets that are not ignored, divided by their number
CrossEntropy(m) ==
    LET valid == {bt \in {<<b, t>> : b \in DOMAIN m, t \in 1..Len(m[1])} :
                     m[bt[1]][bt[2]] # IgnoreIndex}
    IN  IF valid = {} THEN "nan" ELSE "finite"

SelectAll(shape) == shape

\* x[:, [-1], :]
SelectLast(shape) == <<shape[1], 1, shape[3]>>

\* self.lm_head(x)
LmHead(shape, vocab_size) == <<shape[1], shape[2], vocab_size>>

BlockSteps(n) == [l \in 1..n |-> "block"]

ForwardResult(cfg, bufs, B, T, tg) ==
    LET base  == [NoOut EXCEPT !.op = "forward", !.B = B, !.T = T,
                               !.given = tg.given, !.targets = tg.m]
        masks == [l \in DOMAIN bufs |-> MaskSlice(bufs[l], T)]
        x     == PerPosition(Blocks(Embed(B, T), bufs, 0, T))
        xs    == <<B, T, cfg.n_embd>>
        body  == <<"wte", "wpe", "drop">> \o BlockSteps(cfg.n_layer) \o <<"ln_f">>
    IN  IF ~LengthOk(T, cfg.context_len)
        THEN [base EXCEPT !.status = "raised", !.error = "AssertionError"]
        ELSE IF T > cfg.context_len
        \* wpe has context_len rows: position context_len is out of range
        THEN [base EXCEPT !.status = "raised", !.error = "IndexError",
                          !.steps = <<"wte">>]
        ELSE IF \E l \in DOMAIN bufs : Size(masks[l]) # T
        \* a mask that is not (T, T) does not broadcast against the scores
        THEN [base EXCEPT !.status = "raised", !.error = "RuntimeError",
                          !.steps = <<"wte", "wpe", "drop">>]
        ELSE IF tg.given
        THEN [base EXCEPT !.status = "ok",
                          !.shape = LmHead(xs, cfg.vocab_size),
                          !.loss = CrossEntropy(tg.m),
                          !.masks = masks,
                          !.deps = x,
                          !.steps = body \o <<"lm_head", "cross_entropy">>]
        ELSE IF T = 0
        \* index -1 of an empty time dimension
        THEN [base EXCEPT !.status = "raised", !.error = "IndexError",
                          !.steps = body]
        ELSE [base EXCEPT !.status = "ok",
                          !.shape = LmHead(SelectLast(xs), cfg.vocab_size),
                          !.loss = "None",
                          !.masks = masks,
                          !.deps = [b \in 1..B |-> [i \in {T - 1} |-> x[b][i]]],
                          !.steps = body \o <<"lm_head">>]

ForwardCallReslicing(B, T, tg) ==
    /\ phase = "ready"
    /\ out' = ForwardResult(config, tril, B, T, tg)
    /\ tril' = [l \in DOMAIN tril |-> MaskSlice(tril[l], T)]
    /\ UNCHANGED <<phase, config, ref, heap, head_size, pending, data, splits>>

\* logits, loss = model(idx, targets) with idx of shape (B, T)
ForwardCall(B, T, tg) ==
    /\ phase = "ready"
    /\ out' = ForwardResult(config, tril, B, T, tg)
    /\ UNCHANGED <<phase, config, ref, heap, tril, head_size, pending, data, splits>>

----------------------------------------------------------------------------
(* Specifications *)

\* the life of one GPT object: construction, then the caller's writes and queries
Init ==
    /\ phase = "new"
    /\ config = [c \in {} |-> 0]
    /\ ref = NoModel.ref
    /\ heap = NoModel.heap
    /\ tril = NoModel.tril
    /\ head_size = NoModel.head_size
    /\ pending = {}
    /\ out = NoOut
    /\ data = NoData
    /\ splits = NoSplits

DoConstruct == phase = "new" /\ \E cfg \in GPTconfigs : Construct(cfg)

DoWrite == phase = "ready" /\ \E name \in WriteNames, v \in 0..MaxVal : ExternalWrite(name, v)

DoGetNumParams == phase = "ready" /\ \E ne \in BOOLEAN : GetNumParams(ne)

DoForward ==
    \E B \in 1..MaxB, T \in 0..(MaxCtx + 1) :
        \E tg \in TargetChoices(B, T) : ForwardCall(B, T, tg)

Next == DoConstruct \/ DoWrite \/ DoGetNumParams

Spec == Init /\ [][Next]_vars

\* a constructed GPT with the default bias switches, used by a training loop
ForwardConfigs ==
    {c \in GPTconfigs : /\ Constructs(c)
                        /\ c.a_bias /\ c.ffw_bias /\ ~c.lm_head_bias
                        /\ c.init_weights}

InitForward ==
    /\ phase = "ready"
    /\ config \in ForwardConfigs
    /\ ref = Built(config).ref
    /\ heap = Built(config).heap
    /\ tril = Built(config).tril
    /\ head_size = Built(config).head_size
    /\ pending = {}
    /\ out = NoOut
    /\ data = NoData
    /\ splits = NoSplits

NextForward == DoForward \/ DoWrite

SpecForward == InitForward /\ [][NextForward]_vars

\* self.apply(self._init_weights) one callback at a time, the modules taken in
\* any order.  The callback tells modules apart only by isinstance(module,
\* (Linear, Embedding)); the modules of the other classes are taken in their
\* apply order among themselves.
InitConfigs ==
    {c \in GPTconfigs : /\ Constructs(c)
                        /\ c.init_weights
                        /\ c.n_layer <= MaxInitLayer
                        /\ c.a_bias /\ c.ffw_bias /\ ~c.lm_head_bias
                        /\ c.context_len = 1 /\ c.vocab_size = 1
                        /\ c.n_embd = 1 /\ c.n_head = 1 /\ c.ffw_widen = 1}

InitApply ==
    /\ phase = "applying"
    /\ config \in InitConfigs
    /\ ref = Built([config EXCEPT !.init_weights = FALSE]).ref
    /\ heap = Built([config EXCEPT !.init_weights = FALSE]).heap
    /\ tril = Built(config).tril
    /\ head_size = Built(config).head_size
    /\ pending = Range(ApplyOrder(config))
    /\ out = NoOut
    /\ data = NoData
    /\ splits = NoSplits

FirstPendingOther(cfg, pend) ==
    LET ms == ApplyOrder(cfg)
        is == {i \in DOMAIN ms : ms[i] \in pend /\ ms[i].cls \notin {"Linear", "Embedding"}}
    IN  {ms[i] : i \in {k \in is : \A j \in is : k <= j}}

\* one call self._init_weights(m)
Visit(m) ==
    /\ phase = "applying"
    /\ m \in pending
    /\ heap' = InitWeights(config, ref, heap, m)
    /\ pending' = pending \ {m}
    /\ phase' = IF pending' = {} THEN "ready" ELSE "applying"
    /\ UNCHANGED <<config, ref, tril, head_size, out, data, splits>>

Visitable(cfg, pend) ==
    {m \in pend : m.cls \in {"Linear", "Embedding"}} \cup FirstPendingOther(cfg, pend)

DoVisit == \E m \in Visitable(config, pending) : Visit(m)

NextApply == DoVisit

SpecInit == InitApply /\ [][NextApply]_vars

----------------------------------------------------------------------------
(* Python floats (IEEE 754 binary64) of NameProcessor._create_splits.      *)
(* A non-negative float below 2^15 that is a multiple of 2^-60 is the      *)
(* integer value * 2^60, written in NLimbs limbs of LimbBits bits, lowest  *)
(* limb first; every operation rounds to MantissaBits significant bits,    *)
(* to nearest, ties to even.                                               *)

MantissaBits == 53
LimbBits == 15
NLimbs == 5
FracBits == 60
Base == 2 ^ LimbBits

RECURSIVE AddFrom(_, _, _, _)
AddFrom(a, b, j, c) ==
    IF j > NLimbs THEN <<>>
    ELSE <<(a[j] + b[j] + c) % Base>>
         \o AddFrom(a, b, j + 1, (a[j] + b[j] + c) \div Base)

AddL(a, b) == AddFrom(a, b, 1, 0)

RECURSIVE SubFrom(_, _, _, _)
SubFrom(a, b, j, c) ==
    IF j > NLimbs THEN <<>>
    ELSE <<(a[j] - b[j] - c) % Base>>
         \o SubFrom(a, b, j + 1, IF a[j] - b[j] - c < 0 THEN 1 ELSE 0)

SubL(a, b) == SubFrom(a, b, 1, 0)

RECURSIVE MulFrom(_, _, _, _)
MulFrom(a, n, j, c) ==
    IF j > NLimbs THEN <<>>
    ELSE <<(a[j] * n + c) % Base>>
         \o MulFrom(a, n, j + 1, (a[j] * n + c) \div Base)

MulL(a, n) == MulFrom(a, n, 1, 0)

BitAt(a, i) == (a[(i \div LimbBits) + 1] \div (2 ^ (i % LimbBits))) % 2

BitLen(a) ==
    IF \A j \in 1..NLimbs : a[j] = 0 THEN 0
    ELSE LET t == CHOOSE j \in 1..NLimbs :
                      a[j] # 0 /\ \A u \in (j + 1)..NLimbs : a[u] = 0
             w == CHOOSE b \in 1..LimbBits : 2 ^ (b - 1) <= a[t] /\ a[t] < 2 ^ b
         IN  (t - 1) * LimbBits + w

\* how many of the low k bits lie in limb j
LowIn(j, k) ==
    IF k <= (j - 1) * LimbBits THEN 0
    ELSE IF k >= j * LimbBits THEN LimbBits
    ELSE k - (j - 1) * LimbBits

LowNonZero(a, k) == \E j \in 1..NLimbs : a[j] % (2 ^ LowIn(j, k)) # 0

ClearLow(a, k) == [j \in 1..NLimbs |-> a[j] - (a[j] % (2 ^ LowIn(j, k)))]

Pow2L(k) ==
    [j \in 1..NLimbs |-> IF j = (k \div LimbBits) + 1 THEN 2 ^ (k % LimbBits) ELSE 0]

\* the float nearest to the exact value a (plus a non-zero part below the
\* last bit of a when inexact), ties to even
Round(a, inexact) ==
    LET k == BitLen(a) - MantissaBits IN
    IF k <= 0 THEN a
    ELSE LET up == /\ BitAt(a, k - 1) = 1
                   /\ (LowNonZero(a, k - 1) \/ inexact \/ BitAt(a, k) = 1)
         IN  IF up THEN AddL(ClearLow(a, k), Pow2L(k)) ELSE ClearLow(a, k)

\* remainder of p * 2^(LimbBits * s) by q
RECURSIVE Rem(_, _, _)
Rem(p, q, s) == IF s = 0 THEN p % q ELSE (Rem(p, q, s - 1) * Base) % q

\* the float a decimal literal p/q denotes (0.8 is FromDecimal(8, 10))
FromDecimal(p, q) ==
    LET s == FracBits \div LimbBits
        a == [j \in 1..NLimbs |->
                IF j = s + 1 THEN p \div q
                ELSE (Rem(p, q, s - j) * Base) \div q]
    IN  Round(a, Rem(p, q, s) # 0)

One == [j \in 1..NLimbs |-> IF j = (FracBits \div LimbBits) + 1 THEN 1 ELSE 0]

\* x + y, x - y, x * n on floats; int(x)
AddD(a, b) == Round(AddL(a, b), FALSE)
SubD(a, b) == Round(SubL(a, b), FALSE)
MulInt(a, n) == Round(MulL(a, n), FALSE)
Trunc(a) == a[(FracBits \div LimbBits) + 1]

----------------------------------------------------------------------------
(* NameProcessor._create_splits *)

Tokens == {0, 1}

\* DataConfig sizes are decimal literals with one digit: t stands for t/10
Tenths == 1..9

SizeOf(t) == FromDecimal(t, 10)

\* names[lo:hi]
Slice(names, lo, hi) == SubSeq(names, lo + 1, hi)

CreateSplitsResult(d) ==
    LET n  == Len(d.names)
        b1 == Trunc(MulInt(SizeOf(d.train), n))
        b2 == Trunc(MulInt(AddD(SizeOf(d.train), SizeOf(d.dev)), n))
        b3 == Trunc(MulInt(SubD(One, SizeOf(d.test)), n))
    IN  [done |-> TRUE,
         train |-> Slice(d.names, 0, b1),
         dev |-> Slice(d.names, b1, b2),
         test |-> Slice(d.names, b3, n),
         boundary_1 |-> b1, boundary_2 |-> b2, boundary_3 |-> b3]

\* train, dev, test = self._create_splits(encoded_data)
CreateSplits ==
    /\ phase = "data"
    /\ ~splits.done
    /\ splits' = CreateSplitsResult(data)
    /\ UNCHANGED <<phase, config, ref, heap, tril, head_size, pending, out, data>>

TokenLists == UNION {[1..n -> Tokens] : n \in 0..MaxTokens}

InitData ==
    /\ phase = "data"
    /\ config = [c \in {} |-> 0]
    /\ ref = NoModel.ref
    /\ heap = NoModel.heap
    /\ tril = NoModel.tril
    /\ head_size = NoModel.head_size
    /\ pending = {}
    /\ out = NoOut
    /\ \E a \in Tenths, b \in Tenths, c \in Tenths, ns \in TokenLists :
          /\ a + b + c = 10
          /\ data = [train |-> a, dev |-> b, test |-> c, names |-> ns]
    /\ splits = NoSplits

NextData == CreateSplits

SpecSplits == InitData /\ [][NextData]_vars

----------------------------------------------------------------------------
(* Properties *)

IsForward == out.op = "forward"
ForwardOk == IsForward /\ out.status = "ok"

\* C1 as stated: for every batch of shape (B, T) with T <= context_len, forward
\* returns logits of shape (B, T, vocab_size) and a scalar loss when targets
\* are given, and logits of shape (B, 1, vocab_size) and loss None when not.
C1_ShapesForEveryT ==
    (IsForward /\ out.T <= config.context_len) =>
        /\ out.status = "ok"
        /\ out.given => /\ out.shape = <<out.B, out.T, config.vocab_size>>
                        /\ out.loss \in {"finite", "nan"}
        /\ ~out.given => /\ out.shape = <<out.B, 1, config.vocab_size>>
                         /\ out.loss = "None"

\* C1 amended: the same for every T <= context_len when targets are given, and
\* for every 1 <= T <= context_len when they are not; with T = 0 and no targets
\* forward raises IndexError (there is no last position to select).
C1_Shapes ==
    (IsForward /\ out.T <= config.context_len) =>
        /\ out.given => /\ out.status = "ok"
                        /\ out.shape = <<out.B, out.T, config.vocab_size>>
                        /\ out.loss \in {"finite", "nan"}
        /\ (~out.given /\ out.T >= 1) =>
                        /\ out.status = "ok"
                        /\ out.shape = <<out.B, 1, config.vocab_size>>
                        /\ out.loss = "None"
        /\ (~out.given /\ out.T = 0) =>
                        /\ out.status = "raised"
                        /\ out.error = "IndexError"

C1_Witness == ForwardOk /\ ~out.given /\ out.T >= 2 /\ out.T <= config.context_len

LowerTriangular(T) == [i \in 0..(T - 1) |-> [j \in 0..(T - 1) |-> IF j <= i THEN 1 ELSE 0]]

\* C2: the logits at position i of a row are computed from the tokens at
\* positions 0..i of that row only; the mask of every attention layer is the
\* lower-triangular matrix cut to the first T rows and columns, so row i keeps
\* exactly the columns 0..i, itself included.
C2_Causal ==
    ForwardOk =>
        /\ \A b \in DOMAIN out.deps : \A i \in DOMAIN out.deps[b] :
              out.deps[b][i] \subseteq {<<b, j>> : j \in 0..i}
        /\ DOMAIN out.masks = 0..(config.n_layer - 1)
        /\ \A l \in DOMAIN out.masks :
              /\ out.masks[l] = LowerTriangular(out.T)
              /\ \A i \in 0..(out.T - 1) : out.masks[l][i][i] # 0

C2_Witness ==
    /\ ForwardOk /\ out.given /\ out.T >= 2
    /\ config.n_layer = MaxLayer
    /\ out.deps[1][out.T - 1] = {<<1, j>> : j \in 0..(out.T - 1)}

\* C3: from the end of construction on, with or without the initialisation
\* pass, transformer.wte.weight and lm_head.weight are one tensor, so whatever
\* was written in place through either name, both names read the same values.
C3_Tied ==
    phase = "ready" =>
        /\ ref[WteWeight] = ref[LmHeadWeight]
        /\ heap[ref[WteWeight]] = heap[ref[LmHeadWeight]]

C3_Witness ==
    /\ phase = "ready" /\ config.init_weights
    /\ heap[ref[LmHeadWeight]].val = MaxVal

BoolInt(b) == IF b THEN 1 ELSE 0

\* every tensor of the model counted once, the tied weight as vocab_size * n_embd
ExpectedTotal(c) ==
    LET C == c.n_embd
        W == c.n_embd * c.ffw_widen
    IN  c.vocab_size * C + c.context_len * C
        + c.n_layer * (3 * C * C + C * C + 2 * W * C + 4 * C
                       + BoolInt(c.a_bias) * (3 * C + C)
                       + BoolInt(c.ffw_bias) * (W + C))
        + 2 * C + BoolInt(c.lm_head_bias) * c.vocab_size

\* C4: get_num_params(non_embedding=False) counts every distinct tensor once
\* (the tied weight once), and get_num_params(non_embedding=True) is that total
\* minus context_len * n_embd.
C4_NumParams ==
    out.op = "get_num_params" =>
        out.value = ExpectedTotal(config)
                    - (IF out.non_embedding THEN config.context_len * config.n_embd ELSE 0)

C4_Witness ==
    /\ out.op = "get_num_params" /\ out.non_embedding
    /\ config.lm_head_bias /\ config.a_bias /\ ~config.ffw_bias
    /\ config.vocab_size = MaxVocab /\ config.n_layer = MaxLayer

InvalidConfig(c) ==
    \/ ~c.is_GPTconfig
    \/ c.n_head <= 0
    \/ c.n_layer <= 0
    \/ c.vocab_size <= 0
    \/ c.n_embd % c.n_head # 0

\* C5: construction fails, leaving no model, for every config that is not a
\* GPTconfig, or has n_head <= 0, n_layer <= 0 or vocab_size <= 0, or whose
\* n_embd is not a multiple of n_head; every constructed model has
\* head_size * n_head = n_embd in every attention layer.
C5_Construction ==
    /\ (phase \in {"ready", "failed"} /\ InvalidConfig(config)) =>
          /\ phase = "failed"
          /\ ref = <<>> /\ heap = <<>> /\ tril = <<>> /\ head_size = <<>>
    /\ phase = "ready" =>
          /\ DOMAIN head_size = 0..(config.n_layer - 1)
          /\ \A l \in DOMAIN head_size : head_size[l] * config.n_head = config.n_embd

C5_Witness ==
    /\ phase = "failed"
    /\ config.is_GPTconfig /\ config.n_layer > 0 /\ config.vocab_size > 0
    /\ config.n_head > 0 /\ config.n_embd % config.n_head # 0

\* C6: forward on T > context_len fails at the length assertion, before any
\* embedding or block ran, with neither logits nor loss; the length assertion
\* never fails on T <= context_len.
C6_LengthCheck ==
    IsForward =>
        /\ out.T > config.context_len =>
              /\ out.status = "raised" /\ out.error = "AssertionError"
              /\ out.steps = <<>> /\ out.shape = <<>> /\ out.loss = "absent"
        /\ out.error = "AssertionError" => out.T > config.context_len

C6_Witness ==
    /\ IsForward /\ out.status = "raised" /\ out.given
    /\ out.T = config.context_len + 1

AllIgnored(m) == \A b \in DOMAIN m : \A t \in DOMAIN m[b] : m[b][t] = IgnoreIndex

\* C7: with every target equal to the ignore-index, forward does not raise and
\* the loss is a well-defined number (the mean over zero positions is defined).
C7_AllIgnoredLossDefined ==
    (IsForward /\ out.given /\ out.T >= 1 /\ out.T <= config.context_len
        /\ AllIgnored(out.targets)) =>
        /\ out.status = "ok"
        /\ out.loss = "finite"

\* C8: a forward call (whether it returns or fails) leaves every parameter
\* tensor, the names that refer to them, the mask buffers and the config as
\* they were.
C8_ForwardFrame ==
    [][(out'.op = "forward" /\ out' # out) =>
          /\ heap' = heap /\ ref' = ref
          /\ tril' = tril /\ head_size' = head_size
          /\ config' = config]_vars

C8_Witness ==
    /\ IsForward /\ out.status = "raised"
    /\ heap[ref[WteWeight]].val = MaxVal

IsLayerNormParam(n) == n[Len(n) - 1] \in {"ln1", "ln2", "ln_f"}

\* C9: whatever the order of the visits, once every module was visited every
\* weight named ...proj.weight was last filled by normal(std 0.02/sqrt(2*n_layer)),
\* every other Linear/Embedding weight (the tied one included) by normal(std 0.02)
\* and every Linear bias by zeros; during the visits no other weight is ever at
\* the scaled std, and after the first visit no proj weight is at std 0.02.
C9_FinalInit ==
    /\ phase = "ready" =>
          \A n \in DOMAIN ref :
              heap[ref[n]].init =
                  IF EndsWithProjWeight(n) THEN Normal(2 * config.n_layer)
                  ELSE IF IsLayerNormParam(n) THEN Default
                  ELSE IF n[Len(n)] = "weight" THEN Normal(1)
                  ELSE Zeros
    /\ phase \in {"applying", "ready"} =>
          \A n \in DOMAIN ref :
              /\ ~EndsWithProjWeight(n) => heap[ref[n]].init # Normal(2 * config.n_layer)
              /\ (EndsWithProjWeight(n) /\ pending # Range(ApplyOrder(config)))
                    => heap[ref[n]].init = Normal(2 * config.n_layer)

C9_Witness ==
    /\ phase = "ready" /\ pending = {}
    /\ config.n_layer = MaxInitLayer
    /\ heap[ref[LmHeadWeight]].init = Normal(1)

SumsToOne(d) == AddD(AddD(SizeOf(d.train), SizeOf(d.dev)), SizeOf(d.test)) = One

\* C10: when train_size + dev_size + test_size = 1, the three splits are
\* contiguous, disjoint and together the whole list: dev ends where test begins
\* and train, dev, test concatenated give back the input.
C10_Partition ==
    (splits.done /\ SumsToOne(data)) =>
        /\ splits.boundary_1 <= splits.boundary_2
        /\ splits.boundary_2 = splits.boundary_3
        /\ splits.train \o splits.dev \o splits.test = data.names

====
